---- MODULE Spec2Model ----
(***************************************************************************)
(* Model of the request queue, callback registry and flow control of      *)
(* TypeScriptServer (extensions/typescript-language-features/src/         *)
(* server.ts): RequestQueue, CallbackMap and the executeImpl /            *)
(* sendNextRequests / dispatchMessage / tryCancelRequest / handleExit /   *)
(* handleError / dispose handlers.  Every handler runs to completion on   *)
(* the single JavaScript thread, so each handler is one atomic action.    *)
(***************************************************************************)
EXTENDS Integers, Sequences, FiniteSets, TLC

\* Number of executeImpl calls explored.
MaxRequests == 3

Seqs == 0 .. (MaxRequests - 1)

VARIABLES
    sequenceNumber,      \* RequestQueue.sequenceNumber
    queue,               \* RequestQueue.queue : Seq of RequestItem
    callbacks,           \* CallbackMap._callbacks (keys)
    asyncCallbacks,      \* CallbackMap._asyncCallbacks (keys)
    pendingResponses,    \* TypeScriptServer._pendingResponses
    cancellationPipeName,\* TypeScriptServer._cancellationPipeName (configured or not)
    writes,              \* calls of write(): [seq, isAsync, gate, ok] in call order
    requests,            \* RequestItems created by executeImpl, in call order
    invoked,             \* per seq: number of onSuccess/onError invocations
    outcome,             \* per seq: what the last invoked continuation received
    wasCancelled,        \* seqs whose cancellation token has fired
    spliced,             \* seqs tryCancelPendingRequest removed from the queue
    diagnosed,           \* seqs whose failure was logged and sent to telemetry
    exited               \* child process emitted 'exit'

vars == <<sequenceNumber, queue, callbacks, asyncCallbacks, pendingResponses,
          cancellationPipeName, writes, requests, invoked, outcome,
          wasCancelled, spliced, diagnosed, exited>>

\* The part of the state the send/dispatch helpers work on, as one record.
Cur ==
    [queue |-> queue, callbacks |-> callbacks, asyncCallbacks |-> asyncCallbacks,
     pendingResponses |-> pendingResponses, writes |-> writes,
     invoked |-> invoked, outcome |-> outcome]

\* What onError is called with (onSuccess gets "success" or "completed").
Failures == {"errorResponse", "writeError", "cancelled", "exited", "errored", "disposed"}

\* A catch handler that reports every rejection, cancelled or not.
catchHandler_reportAll(st, cancelled) ==
    diagnosed \cup {s \in Seqs : st.invoked[s] > invoked[s] /\ st.outcome[s] \in Failures}

\* TypeScriptServer.executeImpl, the promise's catch handler: it runs for every
\* promise the handler rejected and reports unless wasCancelled is set;
\* cancelled is wasCancelled as it is when the handler returns.
catchHandler(st, cancelled) ==
    diagnosed \cup {s \in Seqs : /\ st.invoked[s] > invoked[s]
                                 /\ st.outcome[s] \in Failures
                                 /\ s \notin cancelled}

\* The handler ends in st (bound once as end); the promise reactions run right
\* after it.
Commit(st, cancelled) ==
    \E end \in {st} :
        /\ queue' = end.queue
        /\ callbacks' = end.callbacks
        /\ asyncCallbacks' = end.asyncCallbacks
        /\ pendingResponses' = end.pendingResponses
        /\ writes' = end.writes
        /\ invoked' = end.invoked
        /\ outcome' = end.outcome
        /\ diagnosed' = catchHandler(end, cancelled)

----------------------------------------------------------------------------
\* CallbackItem.onSuccess / onError: the continuation of seq is invoked.
Invoke(st, seq, what) ==
    [st EXCEPT !.invoked[seq] = @ + 1, !.outcome[seq] = what]

\* CallbackMap.add
CallbackMap_add(st, seq, isAsync) ==
    IF isAsync
    THEN [st EXCEPT !.asyncCallbacks = @ \cup {seq}]
    ELSE [st EXCEPT !.callbacks = @ \cup {seq}]

\* A delete that only ever looks in the sync map.
CallbackMap_delete_syncOnly(st, seq) ==
    [st EXCEPT !.callbacks = @ \ {seq}]

\* CallbackMap.delete: the async map is touched only when the sync map had no entry.
CallbackMap_delete(st, seq) ==
    IF seq \in st.callbacks
    THEN [st EXCEPT !.callbacks = @ \ {seq}]
    ELSE [st EXCEPT !.asyncCallbacks = @ \ {seq}]

\* CallbackMap.fetch, the value returned: is there a callback for seq?
CallbackMap_has(st, seq) ==
    seq \in st.callbacks \/ seq \in st.asyncCallbacks

\* A fetch that forgets to delete the entry.
CallbackMap_fetch_keep(st, seq) ==
    st

\* CallbackMap.fetch, the effect: the entry is deleted.
CallbackMap_fetch(st, seq) ==
    CallbackMap_delete(st, seq)

\* A destroy that fails the async callbacks but leaves them in their map.
CallbackMap_destroy_keepAsync(st, cause) ==
    [st EXCEPT
        !.invoked = [s \in Seqs |->
                        @[s] + (IF s \in st.callbacks THEN 1 ELSE 0)
                             + (IF s \in st.asyncCallbacks THEN 1 ELSE 0)],
        !.outcome = [s \in Seqs |->
                        IF s \in st.callbacks \cup st.asyncCallbacks THEN cause ELSE @[s]],
        !.callbacks = {}]

\* CallbackMap.destroy: onError for every entry of both maps, then both cleared.
CallbackMap_destroy(st, cause) ==
    [st EXCEPT
        !.invoked = [s \in Seqs |->
                        @[s] + (IF s \in st.callbacks THEN 1 ELSE 0)
                             + (IF s \in st.asyncCallbacks THEN 1 ELSE 0)],
        !.outcome = [s \in Seqs |->
                        IF s \in st.callbacks \cup st.asyncCallbacks THEN cause ELSE @[s]],
        !.callbacks = {},
        !.asyncCallbacks = {}]

\* A fetchCallback that hands out the callback but leaves seq in _pendingResponses.
fetchCallback_keepPending(st, seq) ==
    CallbackMap_fetch(st, seq)

\* TypeScriptServer.fetchCallback: _pendingResponses.delete only when a callback was found.
fetchCallback(st, seq) ==
    IF ~CallbackMap_has(st, seq)
    THEN CallbackMap_fetch(st, seq)
    ELSE [CallbackMap_fetch(st, seq) EXCEPT !.pendingResponses = @ \ {seq}]

\* A sendRequest that puts every request expecting a result in _pendingResponses,
\* asynchronous or not.
sendRequest_asyncPending(st, item, gate, throws) ==
    LET st1 == IF item.expectsResponse
               THEN [st EXCEPT !.pendingResponses = @ \cup {item.seq}]
               ELSE st
        entry == [seq |-> item.seq, isAsync |-> item.isAsync, gate |-> gate,
                  ok |-> ~throws]
        st2 == [st1 EXCEPT !.writes = Append(@, entry)]
    IN  IF throws
        THEN IF CallbackMap_has(st2, item.seq)
             THEN Invoke(fetchCallback(st2, item.seq), item.seq, "writeError")
             ELSE fetchCallback(st2, item.seq)
        ELSE st2

\* A sendRequest that never records the request in _pendingResponses.
sendRequest_noPending(st, item, gate, throws) ==
    LET entry == [seq |-> item.seq, isAsync |-> item.isAsync, gate |-> gate,
                  ok |-> ~throws]
        st2 == [st EXCEPT !.writes = Append(@, entry)]
    IN  IF throws
        THEN IF CallbackMap_has(st2, item.seq)
             THEN Invoke(fetchCallback(st2, item.seq), item.seq, "writeError")
             ELSE fetchCallback(st2, item.seq)
        ELSE st2

\* TypeScriptServer.sendRequest; gate is _pendingResponses as the loop saw it
\* before shifting the item; throws says whether write() throws for this item.
sendRequest(st, item, gate, throws) ==
    LET st1 == IF item.expectsResponse /\ ~item.isAsync
               THEN [st EXCEPT !.pendingResponses = @ \cup {item.seq}]
               ELSE st
        entry == [seq |-> item.seq, isAsync |-> item.isAsync, gate |-> gate,
                  ok |-> ~throws]
        st2 == [st1 EXCEPT !.writes = Append(@, entry)]
    IN  IF throws
        THEN IF CallbackMap_has(st2, item.seq)
             THEN Invoke(fetchCallback(st2, item.seq), item.seq, "writeError")
             ELSE fetchCallback(st2, item.seq)
        ELSE st2

\* A loop condition that ignores _pendingResponses.
gateOpen_noGate(st) ==
    Len(st.queue) > 0

\* A loop condition that lets an asynchronous head item through a closed gate.
gateOpen_asyncBypass(st) ==
    /\ Len(st.queue) > 0
    /\ (Cardinality(st.pendingResponses) = 0 \/ Head(st.queue).isAsync)

\* The loop condition of TypeScriptServer.sendNextRequests.
gateOpen(st) ==
    Cardinality(st.pendingResponses) = 0 /\ Len(st.queue) > 0

\* TypeScriptServer.sendNextRequests: the set of states the loop can end in,
\* one for every choice of which write() calls throw.
RECURSIVE sendNextRequests(_)
sendNextRequests(st) ==
    IF gateOpen(st)
    THEN UNION { sendNextRequests(
                    sendRequest([st EXCEPT !.queue = Tail(@)], Head(st.queue),
                                st.pendingResponses, throws))
                 : throws \in BOOLEAN }
    ELSE {st}

----------------------------------------------------------------------------
Init ==
    /\ sequenceNumber = 0
    /\ queue = <<>>
    /\ callbacks = {}
    /\ asyncCallbacks = {}
    /\ pendingResponses = {}
    /\ cancellationPipeName \in BOOLEAN
    /\ writes = <<>>
    /\ requests = <<>>
    /\ invoked = [s \in Seqs |-> 0]
    /\ outcome = [s \in Seqs |-> "none"]
    /\ wasCancelled = {}
    /\ spliced = {}
    /\ diagnosed = {}
    /\ exited = FALSE

\* RequestQueue.createRequest: the seq handed out.
createRequest == sequenceNumber

\* A counter that wraps around instead of growing.
createRequestNext_wrap == (sequenceNumber + 1) % 2

\* RequestQueue.createRequest: the counter afterwards (sequenceNumber++).
createRequestNext == sequenceNumber + 1

\* A push that puts the new item at the head of the queue.
push_front(q, item) ==
    <<item>> \o q

\* RequestQueue.push: the item goes to the end of the array.
push(q, item) ==
    Append(q, item)

\* TypeScriptServer.executeImpl
executeImpl(isAsync, expectsResult) ==
    /\ sequenceNumber < MaxRequests
    /\ LET seq == createRequest
           item == [seq |-> seq, expectsResponse |-> expectsResult, isAsync |-> isAsync]
           st1 == IF expectsResult THEN CallbackMap_add(Cur, seq, isAsync) ELSE Cur
           st2 == [st1 EXCEPT !.queue = push(@, item)]
       IN  /\ \E r \in sendNextRequests(st2) : Commit(r, wasCancelled)
           /\ sequenceNumber' = createRequestNext
           /\ requests' = Append(requests, item)
    /\ UNCHANGED <<cancellationPipeName, wasCancelled, spliced, exited>>

\* seqs the worker has been sent (write() returned normally)
Received == {writes[i].seq : i \in {j \in 1..Len(writes) : writes[j].ok}}

\* A dispatchResponse that invokes a continuation without checking that the
\* callback was found.
dispatchResponse_noCheck(st, seq, success) ==
    Invoke(fetchCallback(st, seq), seq,
           IF success THEN "success" ELSE "errorResponse")

\* TypeScriptServer.dispatchResponse
dispatchResponse(st, seq, success) ==
    IF ~CallbackMap_has(st, seq)
    THEN fetchCallback(st, seq)
    ELSE Invoke(fetchCallback(st, seq), seq,
                IF success THEN "success" ELSE "errorResponse")

\* TypeScriptServer.dispatchMessage, case 'response'
dispatchMessageResponse(seq, success) ==
    /\ seq \in Received
    /\ \E r \in sendNextRequests(dispatchResponse(Cur, seq, success)) : Commit(r, wasCancelled)
    /\ UNCHANGED <<sequenceNumber, cancellationPipeName, requests, wasCancelled,
                   spliced, exited>>

\* TypeScriptServer.dispatchMessage, case 'event' with event 'requestCompleted':
\* the callback is fetched from the CallbackMap directly, not through fetchCallback.
requestCompleted(st, seq) ==
    IF ~CallbackMap_has(st, seq)
    THEN CallbackMap_fetch(st, seq)
    ELSE Invoke(CallbackMap_fetch(st, seq), seq, "completed")

dispatchMessageRequestCompleted(seq) ==
    /\ seq \in Received
    /\ \E r \in sendNextRequests(requestCompleted(Cur, seq)) : Commit(r, wasCancelled)
    /\ UNCHANGED <<sequenceNumber, cancellationPipeName, requests, wasCancelled,
                   spliced, exited>>

\* TypeScriptServer.dispatchMessage, any other event (fired to subscribers) and
\* the default case (throws): only the finally block's sendNextRequests acts.
dispatchMessageOther ==
    /\ \E r \in sendNextRequests(Cur) : Commit(r, wasCancelled)
    /\ UNCHANGED <<sequenceNumber, cancellationPipeName, requests, wasCancelled,
                   spliced, exited>>

\* RequestQueue.tryCancelPendingRequest: index of the first queued item with seq, 0 if none.
RECURSIVE findQueued(_, _, _)
findQueued(q, seq, i) ==
    IF i > Len(q) THEN 0
    ELSE IF q[i].seq = seq THEN i
    ELSE findQueued(q, seq, i + 1)

\* A splice that always removes the first element.
splice_head(q, i) ==
    Tail(q)

\* RequestQueue.tryCancelPendingRequest: queue.splice(i, 1)
splice(q, i) ==
    [k \in 1..(Len(q) - 1) |-> IF k < i THEN q[k] ELSE q[k + 1]]

\* RequestQueue.tryCancelPendingRequest: the queue afterwards
tryCancelPendingRequest(st, seq) ==
    LET i == findQueued(st.queue, seq, 1)
    IN  IF i = 0 THEN st ELSE [st EXCEPT !.queue = splice(@, i)]

\* TypeScriptServer.tryCancelRequest: the value returned
tryCancelRequestResult(seq) ==
    \/ findQueued(queue, seq, 1) # 0
    \/ cancellationPipeName

\* TypeScriptServer.tryCancelRequest, run by the token's onCancellationRequested
\* listener that executeImpl installs for a request expecting a result.  The
\* listener sets wasCancelled first; only the promise's catch handler reads it,
\* so once the promise has settled the flag is dead and is not recorded.
tryCancelRequest(seq) ==
    /\ seq < sequenceNumber
    /\ requests[seq + 1].expectsResponse
    /\ seq \notin wasCancelled
    /\ wasCancelled' = IF CallbackMap_has(Cur, seq)
                       THEN wasCancelled \cup {seq} ELSE wasCancelled
    /\ spliced' = IF findQueued(queue, seq, 1) # 0 THEN spliced \cup {seq} ELSE spliced
    /\ LET st1 == tryCancelPendingRequest(Cur, seq)
       IN  IF CallbackMap_has(st1, seq)
           THEN Commit(Invoke(fetchCallback(st1, seq), seq, "cancelled"),
                       wasCancelled \cup {seq})
           ELSE Commit(fetchCallback(st1, seq), wasCancelled \cup {seq})
    /\ UNCHANGED <<sequenceNumber, cancellationPipeName, requests, exited>>

\* TypeScriptServer.handleExit
handleExit ==
    /\ ~exited
    /\ exited' = TRUE
    /\ Commit(CallbackMap_destroy(Cur, "exited"), wasCancelled)
    /\ UNCHANGED <<sequenceNumber, cancellationPipeName, requests, wasCancelled, spliced>>

\* TypeScriptServer.handleError
handleError ==
    /\ Commit(CallbackMap_destroy(Cur, "errored"), wasCancelled)
    /\ UNCHANGED <<sequenceNumber, cancellationPipeName, requests, wasCancelled,
                   spliced, exited>>

\* TypeScriptServer.dispose
dispose ==
    /\ Commit([CallbackMap_destroy(Cur, "disposed") EXCEPT !.pendingResponses = {}],
              wasCancelled)
    /\ UNCHANGED <<sequenceNumber, cancellationPipeName, requests, wasCancelled,
                   spliced, exited>>

Next ==
    \/ \E a \in BOOLEAN, e \in BOOLEAN : executeImpl(a, e)
    \/ \E s \in Seqs, ok \in BOOLEAN : dispatchMessageResponse(s, ok)
    \/ \E s \in Seqs : dispatchMessageRequestCompleted(s)
    \/ dispatchMessageOther
    \/ \E s \in Seqs : tryCancelRequest(s)
    \/ handleExit
    \/ handleError
    \/ dispose

Spec == Init /\ [][Next]_vars

\* The worker answers seq: a response for it is dispatched.
Answer(s) == \E ok \in BOOLEAN : dispatchMessageResponse(s, ok)

\* The engine with a worker that keeps to the protocol: it sends
\* 'requestCompleted' only for asynchronous requests.
NextConforming ==
    \/ \E a \in BOOLEAN, e \in BOOLEAN : executeImpl(a, e)
    \/ \E s \in Seqs : Answer(s)
    \/ \E s \in Seqs :
          /\ s < Len(requests) /\ requests[s + 1].isAsync
          /\ dispatchMessageRequestCompleted(s)
    \/ dispatchMessageOther
    \/ \E s \in Seqs : tryCancelRequest(s)
    \/ handleExit
    \/ handleError
    \/ dispose

\* The conforming worker eventually answers every command it received, as long
\* as the answer still has an effect on the engine.
FairSpec == Init /\ [][NextConforming]_vars /\ \A s \in Seqs : WF_vars(Answer(s))

----------------------------------------------------------------------------
\* Vocabulary of the properties.

\* seq has a callback in one of the two maps
Registered(s) == s \in callbacks \cup asyncCallbacks

\* executeImpl registered a callback for seq (expectsResult was true)
EverRegistered(s) == s < Len(requests) /\ requests[s + 1].expectsResponse

\* seq is a synchronous request expecting a result
SyncReply(s) ==
    s < Len(requests) /\ requests[s + 1].expectsResponse /\ ~requests[s + 1].isAsync

\* write() was called for seq
Written(s) == \E i \in 1..Len(writes) : writes[i].seq = s

----------------------------------------------------------------------------
\* C1: no callback is invoked twice: for every seq the number of onSuccess /
\* onError invocations is at most one, only registered requests are ever
\* invoked, and a callback that has been invoked is in neither map.
C1_ResolvedAtMostOnce ==
    \A s \in Seqs :
        /\ invoked[s] <= 1
        /\ invoked[s] = 1 => (EverRegistered(s) /\ ~Registered(s))
        /\ (invoked[s] = 0) = (outcome[s] = "none")

\* A request cancelled after it was written, whose response can still arrive,
\* next to one the worker answered and the exit handler has already run.
C1_Witness ==
    /\ exited
    /\ \E s \in Received : outcome[s] = "cancelled" /\ invoked[s] = 1
    /\ \E s \in Received : outcome[s] = "success"

\* C3: right after dispose both maps and _pendingResponses are empty and every
\* request that registered a callback has had it invoked exactly once; a
\* callback invoked before dispose (for instance by handleExit) is not invoked
\* again by dispose.  (A dispose that changes neither invoked nor
\* _pendingResponses found nothing registered and nothing in flight and changes
\* nothing at all, so only the other dispose steps need looking at.)
C3_DisposeLeavesNothing ==
    [][((invoked' # invoked \/ pendingResponses' # pendingResponses)
            /\ writes' = writes /\ dispose) =>
        /\ callbacks' = {} /\ asyncCallbacks' = {} /\ pendingResponses' = {}
        /\ \A s \in Seqs :
              /\ EverRegistered(s) => invoked'[s] = 1
              /\ invoked[s] = 1 => outcome'[s] = outcome[s]
              /\ Registered(s) => outcome'[s] = "disposed"]_vars

\* dispose ran after the worker had exited, each having failed some callback
C3_Witness ==
    /\ exited
    /\ \E s \in Seqs : outcome[s] = "exited"
    /\ \E s \in Seqs : outcome[s] = "disposed"
    /\ callbacks = {} /\ asyncCallbacks = {} /\ pendingResponses = {}

\* C4: _pendingResponses never holds more than one sequence number.
C4_AtMostOneInFlight ==
    Cardinality(pendingResponses) <= 1

\* one synchronous request in flight while two more requests wait in the queue
C4_Witness ==
    /\ Cardinality(pendingResponses) = 1
    /\ Len(queue) >= 2
    /\ \E i \in 1..Len(queue) : queue[i].expectsResponse /\ ~queue[i].isAsync

\* C5: the sequence numbers handed out by createRequest are strictly increasing
\* in submission order (hence pairwise distinct), and all lie below the counter.
C5_SeqStrictlyIncreasing ==
    /\ \A i, j \in 1..Len(requests) : i < j => requests[i].seq < requests[j].seq
    /\ \A i \in 1..Len(requests) : requests[i].seq < sequenceNumber

\* all requests submitted, one cancelled while queued and one answered in between
C5_Witness ==
    /\ Len(requests) = MaxRequests
    /\ spliced # {}
    /\ \E s \in Seqs : outcome[s] = "success"

C7_WritesOnlyThroughOpenGate ==
    \A i \in 1..Len(writes) : writes[i].gate = {}

\* a synchronous request is in flight, and an asynchronous item and an item
\* expecting no result both wait in the queue behind it
C7_Witness ==
    /\ pendingResponses # {}
    /\ Len(writes) >= 1
    /\ \E i \in 1..Len(queue) : queue[i].isAsync /\ queue[i].expectsResponse
    /\ \E i \in 1..Len(queue) : ~queue[i].expectsResponse

\* C2 (as claimed): under FairSpec every registered callback is eventually
\* resolved and removed from the registry.
C2_EveryOutcomeEventuallyResolved ==
    \A s \in Seqs : Registered(s) ~> ~Registered(s)

\* C8 (as claimed): an asynchronous item at the head of the queue does not wait
\* for an in-flight synchronous request: no handler ends with an asynchronous
\* item at the head of the queue while _pendingResponses is non-empty.
C8_AsyncHeadNeverWaits ==
    ~(queue # <<>> /\ Head(queue).isAsync /\ pendingResponses # {})

\* C8 (amended): an asynchronous item honors the gate like every other item: it
\* is written only if _pendingResponses was empty when it was shifted from the
\* queue, and while the gate is closed the asynchronous head item stays unwritten.
C8_AsyncHonorsGate ==
    /\ \A i \in 1..Len(writes) : writes[i].isAsync => writes[i].gate = {}
    /\ (queue # <<>> /\ Head(queue).isAsync /\ pendingResponses # {})
          => ~Written(Head(queue).seq)

\* an asynchronous item waits at the head of the queue behind an in-flight
\* synchronous request, after an earlier asynchronous item was written
C8_Witness ==
    /\ queue # <<>> /\ Head(queue).isAsync /\ pendingResponses # {}
    /\ \E i \in 1..Len(writes) : writes[i].isAsync /\ writes[i].ok

\* C9: _pendingResponses only ever holds synchronous requests expecting a
\* result; and an asynchronous request submitted while the gate is open and the
\* queue empty is written within executeImpl, leaves the gate open, and resolves
\* none of the asynchronous callbacks already registered, however many there are.
C9_AsyncNeverInFlight ==
    /\ [](\A s \in pendingResponses : SyncReply(s))
    /\ [][(/\ Len(requests') = Len(requests) + 1
            /\ requests'[Len(requests')].isAsync
            /\ pendingResponses = {} /\ queue = <<>>)
           => (/\ Len(writes') = Len(writes) + 1
               /\ writes'[Len(writes')].seq = requests'[Len(requests')].seq
               /\ pendingResponses' = {} /\ queue' = <<>>
               /\ asyncCallbacks \subseteq asyncCallbacks')]_vars

\* asynchronous requests, all written to the worker and none resolved, no
\* synchronous request in flight
C9_Witness ==
    /\ Cardinality(asyncCallbacks) >= 2
    /\ asyncCallbacks \subseteq Received
    /\ pendingResponses = {}

\* C10: a cancellation that finds the request in the queue removes exactly that
\* item, keeps the other items in order, writes nothing, and leaves the request
\* without a registered callback, failed with the cancellation error if it was
\* still registered; a request removed this way is never written afterwards and
\* its callback has been invoked exactly once, with a failure.
C10_CancelQueued ==
    /\ [](\A s \in spliced :
            /\ ~Written(s) /\ ~Registered(s)
            /\ \A i \in 1..Len(queue) : queue[i].seq # s
            /\ invoked[s] = 1 /\ outcome[s] \in Failures)
    /\ [][\A s \in spliced' \ spliced :
            LET others(item) == item.seq # s
            IN  /\ queue' = SelectSeq(queue, others)
                /\ Len(queue') = Len(queue) - 1
                /\ writes' = writes
                /\ pendingResponses' = pendingResponses
                /\ callbacks' \cup asyncCallbacks' = (callbacks \cup asyncCallbacks) \ {s}
                /\ Registered(s) => outcome'[s] = "cancelled"]_vars

\* a request was cancelled while queued, a request submitted after it was
\* written later, and another one still waits in the queue
C10_Witness ==
    \E s \in spliced :
        /\ outcome[s] = "cancelled"
        /\ \E i \in 1..Len(writes) : writes[i].seq > s

\* C11: a cancellation of a request that has been written and whose callback is
\* still registered invokes onError with the cancellation error within
\* tryCancelRequest, with or without a cancellation pipe: the callback leaves
\* the registry, the seq leaves _pendingResponses, nothing is written or
\* dequeued; and from then on no response or event changes that outcome.
C11_CancelSentResolvesNow ==
    /\ [][\A s \in (wasCancelled' \ wasCancelled) \ spliced' :
            /\ Written(s) /\ Registered(s)
            /\ ~Registered(s)'
            /\ outcome'[s] = "cancelled"
            /\ invoked'[s] = invoked[s] + 1
            /\ s \notin pendingResponses'
            /\ pendingResponses' = pendingResponses \ {s}
            /\ writes' = writes /\ queue' = queue]_vars
    /\ [][(outcome' # outcome \/ invoked' # invoked) =>
            \A s \in Seqs :
                outcome[s] = "cancelled"
                => (outcome'[s] = "cancelled" /\ invoked'[s] = invoked[s])]_vars

\* a synchronous request was cancelled in flight without a cancellation pipe,
\* its seq is out of _pendingResponses, and the request queued behind it has
\* been written since
C11_Witness ==
    /\ ~cancellationPipeName
    /\ \E s \in Received :
          /\ SyncReply(s) /\ outcome[s] = "cancelled" /\ invoked[s] = 1
          /\ s \notin pendingResponses
          /\ \E t \in Received : t > s

\* C12: dispatching a response whose request_seq has no registered callback
\* invokes no continuation and changes neither map nor anything else:
\* dispatchResponse leaves the state as it is, so all that the handler does is
\* the sendNextRequests of its finally block.
C12_UnmatchedResponseDiscarded ==
    \A s \in Received :
        ~Registered(s) => \A ok \in BOOLEAN : dispatchResponse(Cur, s, ok) = Cur

\* the worker has received a request that never registered a callback, one
\* that was cancelled after it was written and one that was already answered
C12_Witness ==
    \E s1, s2, s3 \in Received :
        /\ ~requests[s1 + 1].expectsResponse
        /\ outcome[s2] = "cancelled"
        /\ outcome[s3] \in {"success", "errorResponse"}

\* C13 (as claimed): when handleExit or handleError runs, every registered
\* callback, of a queued or a written request, synchronous or asynchronous, is
\* invoked once with the failure, both maps end empty, and the queue is empty
\* afterwards.
C13_ExitFailsAllAndEmptiesQueue ==
    [][(handleExit \/ handleError)
        => /\ \A s \in Seqs :
                Registered(s)
                => (outcome'[s] \in {"exited", "errored"} /\ invoked'[s] = invoked[s] + 1)
           /\ callbacks' = {} /\ asyncCallbacks' = {}
           /\ queue' = <<>>]_vars

\* C14 (as claimed): a request whose write() threw does not stay in
\* _pendingResponses and, if it had registered a callback, that callback has
\* been failed exactly once.
C14_FailedWriteLeavesGate ==
    \A i \in 1..Len(writes) :
        ~writes[i].ok
        => /\ writes[i].seq \notin pendingResponses
           /\ EverRegistered(writes[i].seq)
                => (invoked[writes[i].seq] = 1 /\ outcome[writes[i].seq] \in Failures)

\* C15: the failure of a request is logged and sent to telemetry exactly when
\* its callback was failed by something other than the caller's cancellation:
\* a failure response, a write failure, or the forced failure of handleExit,
\* handleError or dispose; never for a cancellation, never for a success.
C15_DiagnosticUnlessCancelled ==
    \A s \in Seqs :
        (s \in diagnosed) = (outcome[s] \in Failures \ {"cancelled"})

\* one request was cancelled, one got a failure response and one was failed
\* by the worker's exit
C15_Witness ==
    \E s1, s2, s3 \in Seqs :
        /\ outcome[s1] = "cancelled" /\ s1 \notin diagnosed
        /\ outcome[s2] = "errorResponse" /\ s2 \in diagnosed
        /\ outcome[s3] = "exited" /\ s3 \in diagnosed

\* C16 (as claimed): no handler ends with _pendingResponses empty while the
\* queue is non-empty.
C16_NeverIdleWithOpenGate ==
    ~(pendingResponses = {} /\ queue # <<>>)

\* C17 (as claimed): after the dispatch of a response or of a 'requestCompleted'
\* event for seq, seq is not in _pendingResponses and sendNextRequests has run
\* (the gate is closed or the queue is empty), whether or not a callback was found.
C17_DispatchClearsInFlight ==
    [][\A s \in Seqs :
        (dispatchMessageRequestCompleted(s) \/ Answer(s))
        => /\ s \notin pendingResponses'
           /\ ~(pendingResponses' = {} /\ queue' # <<>>)]_vars

\* C18: commands are written in submission order: the seqs handed to write()
\* are strictly increasing, so none is written twice, and a submitted seq that
\* was never handed to write() was either cancelled while queued or is still
\* in the queue (and the queue itself is in submission order, behind
\* everything written).
C18_WrittenInSubmissionOrder ==
    /\ \A i \in 1..Len(writes) : \A j \in 1..Len(writes) :
            i < j => writes[i].seq < writes[j].seq
    /\ \A i \in 1..Len(queue) : \A j \in 1..Len(queue) :
            i < j => queue[i].seq < queue[j].seq
    /\ \A i \in 1..Len(writes) : \A j \in 1..Len(queue) :
            writes[i].seq < queue[j].seq
    /\ \A s \in 0..(sequenceNumber - 1) :
            \/ \E i \in 1..Len(writes) : writes[i].seq = s
            \/ s \in spliced
            \/ \E j \in 1..Len(queue) : queue[j].seq = s

\* A command cancelled while queued is missing between two written commands.
C18_Witness ==
    \E s \in spliced : \E i \in 1..Len(writes) : \E j \in 1..Len(writes) :
        /\ writes[i].seq < s /\ s < writes[j].seq
        /\ \A k \in 1..Len(writes) : writes[k].seq # s

\* C19: while the callback of a written asynchronous command is registered,
\* its response resolves it per the success flag and its 'requestCompleted'
\* event resolves it as success; either one removes it from the async map,
\* and whichever message for that seq is dispatched after that is discarded:
\* it changes nothing and invokes nothing.
C19_AsyncEitherPath ==
    \A s \in Received :
        /\ s \in asyncCallbacks =>
              /\ \A ok \in BOOLEAN :
                    dispatchResponse(Cur, s, ok) =
                        Invoke([Cur EXCEPT !.asyncCallbacks = @ \ {s}], s,
                               IF ok THEN "success" ELSE "errorResponse")
              /\ requestCompleted(Cur, s) =
                    Invoke([Cur EXCEPT !.asyncCallbacks = @ \ {s}], s, "completed")
              /\ \A first \in {dispatchResponse(Cur, s, TRUE),
                                dispatchResponse(Cur, s, FALSE),
                                requestCompleted(Cur, s)} :
                    /\ requestCompleted(first, s) = first
                    /\ \A ok \in BOOLEAN : dispatchResponse(first, s, ok) = first
        /\ (requests[s + 1].isAsync /\ EverRegistered(s) /\ ~Registered(s)) =>
              /\ requestCompleted(Cur, s) = Cur
              /\ \A ok \in BOOLEAN : dispatchResponse(Cur, s, ok) = Cur

\* One asynchronous command was resolved by its 'requestCompleted' event and
\* another by its response; a second message for either can still arrive.
C19_Witness ==
    \E s1 \in Received : \E s2 \in Received :
        /\ requests[s1 + 1].isAsync /\ requests[s2 + 1].isAsync
        /\ outcome[s1] = "completed" /\ invoked[s1] = 1 /\ ~Registered(s1)
        /\ outcome[s2] \in {"success", "errorResponse"} /\ invoked[s2] = 1
        /\ ~Registered(s2)

\* C20 (as claimed): every seq in _pendingResponses has a callback registered
\* in the synchronous map.
C20_InFlightHasCallback ==
    pendingResponses \subseteq callbacks
====
